---- MODULE Spec2Model ----
(***************************************************************************)
(* A model of ch02/src/lib.rs: login sessions, view history, carts and the *)
(* row-cache scheduler kept in a Redis store, with the three worker loops  *)
(* (clean_sessions, clean_full_sessions, cache_rows) running concurrently  *)
(* with the request-side functions.  Every Redis command is one atomic     *)
(* step; the commands of one call or of one loop iteration are not atomic  *)
(* together.  Time is the millisecond clock of SystemTime::now(), counted  *)
(* from the moment the model starts (a negative score is a time before).   *)
(***************************************************************************)
EXTENDS Integers, FiniteSets, Sequences, TLC

\* ------------------------------------------------------------- bounds
MaxPreload == 102      \* size of the largest registry the model starts from
MaxClock == 2          \* the clock stops at this millisecond
MaxCalls == 2          \* update_token calls per behaviour
MaxSched == 2          \* schedule_row_cache calls per behaviour

\* ------------------------------------------------- program constants
BatchCap == 100        \* cmp::min(size - limit, 100)
TrimStop == -26        \* conn.zremrangebyrank(&viewed, 0, -26)
MsPerSec == 1000       \* as_millis(): the clock counts milliseconds
RankCap == 10000       \* rank.unwrap() < 10000
Ttl == 300             \* conn.set_ex(&page_key, &content, 300_usize)

HistoryCap == (0 - TrimStop) - 1

\* --------------------------------------------------------- value sets
Tokens == 1..(MaxPreload + 1)
ClientTokens == {1, MaxPreload + 1}
Users == {1, 2}
NotFound == 0
NoItem == 0
Items == 1..(HistoryCap + 2)
ClientItems == {NoItem, 1}
Limits == {-1, 0, 1}
Reapers == {"plain", "full"}
RunSets == {{"plain"}, {"full"}, {"plain", "full"}}
PreloadSizes == {0, 2, MaxPreload}
Rows == {1, 2}
Delays == {-1, 0, 1, 2}

Min(a, b) == IF a <= b THEN a ELSE b
Max(a, b) == IF a >= b THEN a ELSE b

\* The empty hash or sorted set: what a missing key reads as.
Empty == [x \in {} |-> 0]

\* ------------------------------------------------ Redis hash commands
HSet(h, f, v) == [x \in (DOMAIN h) \cup {f} |-> IF x = f THEN v ELSE h[x]]
HGet(h, f) == IF f \in DOMAIN h THEN h[f] ELSE NotFound
HDel(h, fs) == [x \in (DOMAIN h) \ fs |-> h[x]]

\* ------------------------------------------ Redis sorted-set commands
\* Members are ordered by score, equal scores by member name (the integer
\* order of the ids stands for the byte order of the names).
ZAdd(z, m, s) == [x \in (DOMAIN z) \cup {m} |-> IF x = m THEN s ELSE z[x]]
ZRem(z, ms) == [x \in (DOMAIN z) \ ms |-> z[x]]
ZCard(z) == Cardinality(DOMAIN z)
ZIncr(z, m, d) == ZAdd(z, m, (IF m \in DOMAIN z THEN z[m] ELSE 0) + d)
ZLess(z, a, b) == z[a] < z[b] \/ (z[a] = z[b] /\ a < b)
ZRank(z, m) == Cardinality({u \in DOMAIN z : ZLess(z, u, m)})
\* A negative index counts from the end; the range is clipped to the set.
ZIndex(i, n) == IF i < 0 THEN n + i ELSE i
ZRange(z, start, stop) ==
    LET n == ZCard(z)
        s == Max(ZIndex(start, n), 0)
        e == Min(ZIndex(stop, n), n - 1)
    IN  {m \in DOMAIN z : s <= ZRank(z, m) /\ ZRank(z, m) <= e}
ZRemRangeByRank(z, start, stop) == ZRem(z, ZRange(z, start, stop))

\* DEL of whole keys of a key family (a map from token to value).
Del(keys, ts) == [x \in (DOMAIN keys) \ ts |-> keys[x]]

\* ---------------------------------------------------------- the state
VARIABLES
    now,        \* SystemTime::now() in milliseconds, as last read
    quit,       \* the shared AtomicBool
    login,      \* hash "login:"    token -> user
    recent,     \* zset "recent:"   token -> last seen (ms)
    viewed,     \* zsets "viewed:<token>"  token -> (item -> viewed at (ms))
    pop,        \* zset "viewed:"   item -> score (lower is more popular)
    cart,       \* hashes "cart:<token>"   token -> (item -> count)
    delay,      \* zset "delay:"    row -> delay
    schedule,   \* zset "schedule:" row -> due at
    inv,        \* strings "inv:<row>"     row -> serialized record
    client,     \* the caller of update_token: pc, token, user, item, ts
    reaper,     \* the two reaper loops: pc, limit, size, tokens
    sclient,    \* the caller of schedule_row_cache: pc, row, delay
    worker,     \* the cache_rows loop: pc, row, now, delay
    ncalls,     \* update_token calls made so far
    nsched,     \* schedule_row_cache calls made so far
    lastSet,    \* history: client token -> user of its last HSET not undone by an HDEL
    viewLog,    \* history: token -> (item -> <<number, time>> of its latest view)
    asked,      \* history: row -> {delay of its last schedule_row_cache call, once
                \* completed}, {} while none or one is in progress
    cache,      \* strings "cache:<hash>"  hash -> content and expiry (ms)
    pager,      \* the caller of cache_request and can_cache: pc, arguments, locals
    shopper,    \* the caller of add_to_cart: calls made, arguments of the last
    faults,     \* history: the worker loops one of whose store commands failed
    midPass     \* history: the reapers that had read their batch, and not ended
                \* the pass, when the latest update_token call started

storeS == <<login, recent, viewed, pop, cart>>
storeR == <<delay, schedule, inv>>
sessS == <<storeS, client, reaper, ncalls, lastSet, viewLog>>
rowsS == <<storeR, sclient, worker, nsched, asked>>
pageS == <<cache, pager, shopper, faults>>
vars == <<now, quit, sessS, rowsS, pageS, midPass>>

\* The clock is read, never waited on: between two reads it has advanced by
\* some amount, here 0 or 1 ms, up to MaxClock.
ClockRead(t) == t \in {now, now + 1} /\ t <= MaxClock

\* ------------------------------------------------------ initial states
IdleClient == [pc |-> "idle", token |-> 1, user |-> 1, item |-> NoItem, ts |-> 0]
OffReaper == [pc |-> "off", limit |-> 0, size |-> 0, tokens |-> {}]
IdleSClient == [pc |-> "idle", row |-> 1, delay |-> 1]
OffWorker == [pc |-> "off", row |-> 1, now |-> 0, delay |-> 1, cached |-> 0]
NoCall == [request |-> <<>>, callback |-> 1, admit |-> FALSE,
           content |-> <<>>, setAt |-> 0]
IdlePager ==
    [pc |-> "idle", n |-> 0, request |-> <<>>, callback |-> 1, admit |-> FALSE,
     probe |-> FALSE, content |-> <<>>, rendered |-> FALSE, gotAt |-> 0,
     setAt |-> 0, prev |-> NoCall]
NoShopper == [n |-> 0, session |-> 1, item |-> 1, count |-> 0]

\* A registry of n sessions, token t last seen at t - MaxPreload - 1 (all
\* before the model starts, the lowest token the oldest), as n update_token
\* calls without an item leave it.
PreloadRecent(n) == [t \in 1..n |-> t - MaxPreload - 1]
PreloadLogin(n) == [t \in 1..n |-> 1]

InitRowsOff ==
    /\ delay = Empty
    /\ schedule = Empty
    /\ inv = Empty
    /\ sclient = IdleSClient
    /\ worker = OffWorker
    /\ nsched = 0
    /\ asked = [r \in Rows |-> {}]

InitSessionsOff ==
    /\ login = Empty
    /\ recent = Empty
    /\ viewed = Empty
    /\ pop = Empty
    /\ cart = Empty
    /\ client = IdleClient
    /\ reaper = [r \in Reapers |-> OffReaper]
    /\ ncalls = 0
    /\ lastSet = [t \in ClientTokens |-> NotFound]
    /\ viewLog = [t \in ClientTokens |-> Empty]

InitPageOff ==
    /\ cache = Empty
    /\ pager = IdlePager
    /\ shopper = NoShopper
    /\ faults = {}
    /\ midPass = {}

\* The registry holds n sessions and the reapers of `run` have been spawned
\* with limit l: thread::spawn(move || clean_sessions(&mut conn, limit, signal)).
InitRegistry(sizes, limits, runs) ==
    /\ now = 0
    /\ quit = FALSE
    /\ \E n \in sizes :
          /\ login = PreloadLogin(n)
          /\ recent = PreloadRecent(n)
          /\ lastSet = [t \in ClientTokens |-> IF t <= n THEN 1 ELSE NotFound]
    /\ viewed = Empty
    /\ pop = Empty
    /\ cart = Empty
    /\ client = IdleClient
    /\ ncalls = 0
    /\ viewLog = [t \in ClientTokens |-> Empty]
    /\ \E l \in limits, run \in runs :
          reaper = [r \in Reapers |->
                      IF r \in run THEN [OffReaper EXCEPT !.pc = "check", !.limit = l]
                      ELSE OffReaper]

\* ------------------------------------------------------ update_token
\* Reaper r has read the batch of a pass (zrange) that it has not ended.
BatchRead(r) == reaper[r].pc \in {"del", "hdel", "zrem"}

update_token_hsetnx(t, u, i) ==
    /\ client.pc = "idle"
    /\ ncalls < MaxCalls
    /\ ClockRead(now')
    /\ login' = IF t \in DOMAIN login THEN login ELSE HSet(login, t, u)
    /\ lastSet' = [lastSet EXCEPT ![t] = u]
    /\ client' = [pc |-> "zadd_recent", token |-> t, user |-> u, item |-> i,
                  ts |-> now']
    /\ ncalls' = ncalls + 1
    /\ midPass' = {r \in Reapers : BatchRead(r)}
    /\ UNCHANGED <<quit, recent, viewed, pop, cart, reaper, viewLog, rowsS,
                   pageS>>

\* The call, its clock read and its first command.
update_token_hset(t, u, i) ==
    /\ client.pc = "idle"
    /\ ncalls < MaxCalls
    /\ ClockRead(now')
    /\ login' = HSet(login, t, u)
    /\ lastSet' = [lastSet EXCEPT ![t] = u]
    /\ client' = [pc |-> "zadd_recent", token |-> t, user |-> u, item |-> i,
                  ts |-> now']
    /\ ncalls' = ncalls + 1
    /\ midPass' = {r \in Reapers : BatchRead(r)}
    /\ UNCHANGED <<quit, recent, viewed, pop, cart, reaper, viewLog, rowsS,
                   pageS>>

update_token_zadd_recent ==
    /\ client.pc = "zadd_recent"
    /\ recent' = ZAdd(recent, client.token, client.ts)
    /\ client' = [client EXCEPT
                    !.pc = IF client.item = NoItem THEN "idle" ELSE "zadd_viewed"]
    /\ UNCHANGED <<now, quit, login, viewed, pop, cart, reaper, ncalls, lastSet,
                   viewLog, rowsS, pageS, midPass>>

ViewedOf(t) == IF t \in DOMAIN viewed THEN viewed[t] ELSE Empty

\* Writing a sorted set back under its key: an empty set is no key.
PutViewed(t, z) ==
    IF DOMAIN z = {} THEN Del(viewed, {t})
    ELSE [x \in (DOMAIN viewed) \cup {t} |-> IF x = t THEN z ELSE viewed[x]]

update_token_zadd_viewed ==
    /\ client.pc = "zadd_viewed"
    /\ viewed' = PutViewed(client.token,
                           ZAdd(ViewedOf(client.token), client.item, client.ts))
    /\ viewLog' = [viewLog EXCEPT
                     ![client.token] =
                         HSet(@, client.item, <<ncalls, client.ts>>)]
    /\ client' = [client EXCEPT !.pc = "zremrangebyrank"]
    /\ UNCHANGED <<now, quit, login, recent, pop, cart, reaper, ncalls, lastSet,
                   rowsS, pageS, midPass>>

update_token_zremrangebyrank_front ==
    /\ client.pc = "zremrangebyrank"
    /\ viewed' = PutViewed(client.token,
                           ZRemRangeByRank(ViewedOf(client.token), 0,
                                           (0 - TrimStop) - 2))
    /\ client' = [client EXCEPT !.pc = "zincr"]
    /\ UNCHANGED <<now, quit, login, recent, pop, cart, reaper, ncalls, lastSet,
                   viewLog, rowsS, pageS, midPass>>

update_token_zremrangebyrank ==
    /\ client.pc = "zremrangebyrank"
    /\ viewed' = PutViewed(client.token,
                           ZRemRangeByRank(ViewedOf(client.token), 0, TrimStop))
    /\ client' = [client EXCEPT !.pc = "zincr"]
    /\ UNCHANGED <<now, quit, login, recent, pop, cart, reaper, ncalls, lastSet,
                   viewLog, rowsS, pageS, midPass>>

update_token_zincr ==
    /\ client.pc = "zincr"
    /\ pop' = ZIncr(pop, client.item, -1)
    /\ client' = [client EXCEPT !.pc = "idle"]
    /\ UNCHANGED <<now, quit, login, recent, viewed, cart, reaper, ncalls,
                   lastSet, viewLog, rowsS, pageS, midPass>>

\* ------------------------------------------------------- check_token
\* One HGET: what a call made in the current state returns.
check_token(t) == HGet(login, t)

\* ------------------------------- clean_sessions, clean_full_sessions
\* while !quit.load(Ordering::Relaxed)
reaper_check(r) ==
    /\ reaper[r].pc = "check"
    /\ reaper' = [reaper EXCEPT ![r].pc = IF quit THEN "done" ELSE "zcard"]
    /\ UNCHANGED <<now, quit, storeS, client, ncalls, lastSet, viewLog, rowsS,
                   pageS, midPass>>

reaper_zcard(r) ==
    /\ reaper[r].pc = "zcard"
    /\ LET size == ZCard(recent)
       IN  reaper' = [reaper EXCEPT
                        ![r] = [@ EXCEPT
                                  !.size = size,
                                  !.pc = IF size <= reaper[r].limit
                                         THEN "sleep" ELSE "zrange"]]
    /\ UNCHANGED <<now, quit, storeS, client, ncalls, lastSet, viewLog, rowsS,
                   pageS, midPass>>

\* thread::sleep(Duration::from_secs(1)); continue
reaper_sleep(r) ==
    /\ reaper[r].pc = "sleep"
    /\ reaper' = [reaper EXCEPT ![r].pc = "check"]
    /\ UNCHANGED <<now, quit, storeS, client, ncalls, lastSet, viewLog, rowsS,
                   pageS, midPass>>

EndIndexNoCap(size, limit) == size - limit
EndIndex(size, limit) == Min(size - limit, BatchCap)

\* The batch taken from the other end of recent:.
reaper_zrange_newest(r) ==
    /\ reaper[r].pc = "zrange"
    /\ reaper' = [reaper EXCEPT
                    ![r] = [@ EXCEPT
                              !.tokens =
                                  ZRange(recent,
                                         0 - EndIndex(reaper[r].size,
                                                      reaper[r].limit), -1),
                              !.pc = "del"]]
    /\ UNCHANGED <<now, quit, storeS, client, ncalls, lastSet, viewLog, rowsS,
                   pageS, midPass>>

reaper_zrange(r) ==
    /\ reaper[r].pc = "zrange"
    /\ reaper' = [reaper EXCEPT
                    ![r] = [@ EXCEPT
                              !.tokens =
                                  ZRange(recent, 0,
                                         EndIndex(reaper[r].size,
                                                  reaper[r].limit) - 1),
                              !.pc = "del"]]
    /\ UNCHANGED <<now, quit, storeS, client, ncalls, lastSet, viewLog, rowsS,
                   pageS, midPass>>

\* DEL of the view histories and of the carts, in the plain reaper.
clean_sessions_del_carts ==
    /\ reaper["plain"].pc = "del"
    /\ viewed' = Del(viewed, reaper["plain"].tokens)
    /\ cart' = Del(cart, reaper["plain"].tokens)
    /\ reaper' = [reaper EXCEPT !["plain"].pc = "hdel"]
    /\ UNCHANGED <<now, quit, login, recent, pop, client, ncalls, lastSet,
                   viewLog, rowsS, pageS, midPass>>

\* conn.del(&views)?: DEL without a key is an error reply, which `?` returns.
clean_sessions_del ==
    /\ reaper["plain"].pc = "del"
    /\ IF reaper["plain"].tokens = {}
       THEN /\ reaper' = [reaper EXCEPT !["plain"].pc = "err"]
            /\ UNCHANGED viewed
       ELSE /\ viewed' = Del(viewed, reaper["plain"].tokens)
            /\ reaper' = [reaper EXCEPT !["plain"].pc = "hdel"]
    /\ UNCHANGED <<now, quit, login, recent, pop, cart, client, ncalls, lastSet,
                   viewLog, rowsS, pageS, midPass>>

clean_full_sessions_del ==
    /\ reaper["full"].pc = "del"
    /\ IF reaper["full"].tokens = {}
       THEN /\ reaper' = [reaper EXCEPT !["full"].pc = "err"]
            /\ UNCHANGED <<viewed, cart>>
       ELSE /\ viewed' = Del(viewed, reaper["full"].tokens)
            /\ cart' = Del(cart, reaper["full"].tokens)
            /\ reaper' = [reaper EXCEPT !["full"].pc = "hdel"]
    /\ UNCHANGED <<now, quit, login, recent, pop, client, ncalls, lastSet,
                   viewLog, rowsS, pageS, midPass>>

reaper_hdel(r) ==
    /\ reaper[r].pc = "hdel"
    /\ login' = HDel(login, reaper[r].tokens)
    /\ lastSet' = [t \in ClientTokens |->
                     IF t \in reaper[r].tokens THEN NotFound ELSE lastSet[t]]
    /\ reaper' = [reaper EXCEPT ![r].pc = "zrem"]
    /\ UNCHANGED <<now, quit, recent, viewed, pop, cart, client, ncalls,
                   viewLog,
                   rowsS, pageS, midPass>>

reaper_zrem_skipped(r) ==
    /\ reaper[r].pc = "zrem"
    /\ reaper' = [reaper EXCEPT ![r].pc = "check"]
    /\ midPass' = midPass \ {r}
    /\ UNCHANGED <<now, quit, storeS, client, ncalls, lastSet, viewLog, rowsS,
                   pageS>>

reaper_zrem(r) ==
    /\ reaper[r].pc = "zrem"
    /\ recent' = ZRem(recent, reaper[r].tokens)
    /\ reaper' = [reaper EXCEPT ![r].pc = "check"]
    /\ midPass' = midPass \ {r}
    /\ UNCHANGED <<now, quit, login, viewed, pop, cart, client, ncalls, lastSet,
                   viewLog, rowsS, pageS>>

\* quit.store(true, Ordering::Relaxed)
set_quit ==
    /\ ~quit
    /\ quit' = TRUE
    /\ UNCHANGED <<now, sessS, rowsS, pageS, midPass>>

ReaperStep ==
    \/ \E r \in Reapers : reaper_check(r)
    \/ \E r \in Reapers : reaper_zcard(r)
    \/ \E r \in Reapers : reaper_sleep(r)
    \/ \E r \in Reapers : reaper_zrange(r)
    \/ clean_sessions_del
    \/ clean_full_sessions_del
    \/ \E r \in Reapers : reaper_hdel(r)
    \/ \E r \in Reapers : reaper_zrem(r)

\* ---------------------------------------------------------------------
\* The reapers on registries of up to MaxPreload sessions, with a caller
\* that logs in new sessions while they run.
InitReap ==
    InitRegistry(PreloadSizes, Limits, RunSets) /\ InitRowsOff /\ InitPageOff

NextReap ==
    \/ update_token_hset(MaxPreload + 1, 1, NoItem)
    \/ update_token_zadd_recent
    \/ ReaperStep

SpecReap == InitReap /\ [][NextReap]_vars

\* The steps of reaper r alone, and the reapers left to themselves: each is
\* a thread of its own, which the operating system keeps scheduling.
ReaperOf(r) ==
    \/ reaper_check(r)
    \/ reaper_zcard(r)
    \/ reaper_sleep(r)
    \/ reaper_zrange(r)
    \/ (r = "plain" /\ clean_sessions_del)
    \/ (r = "full" /\ clean_full_sessions_del)
    \/ reaper_hdel(r)
    \/ reaper_zrem(r)

SpecReapFair ==
    InitReap /\ [][ReaperStep]_vars /\ \A r \in Reapers : WF_vars(ReaperOf(r))

\* ---------------------------------------------------------------------
Removed == ZCard(recent) - ZCard(recent')
PassEnds(r) == reaper[r].pc = "zrem" /\ reaper'[r].pc = "check"
SizeRead(r) == reaper[r].pc = "zcard" /\ reaper'[r].pc # "zcard"
IdlePass(r) == reaper[r].pc \in {"zcard", "sleep"} /\ reaper'[r] # reaper[r]
Alone(r) == \A o \in Reapers \ {r} : reaper[o].pc = "off"

\* C1 as stated: a pass that read size s > limit removes exactly
\* min(s - limit, 100) tokens from recent:, and a pass that read s <= limit
\* goes to sleep having changed nothing in the store.
C1_ExactBatch ==
    [][\A r \in Reapers :
          /\ PassEnds(r) =>
                Removed = Min(reaper[r].size - reaper[r].limit, 100)
          /\ SizeRead(r) =>
                (reaper'[r].pc = "sleep" <=> reaper'[r].size <= reaper[r].limit)
          /\ IdlePass(r) => UNCHANGED storeS]_vars

\* C1 amended: a pass that read size s > limit removes at most
\* min(s - limit, 100) tokens from recent: (never more than 100), and exactly
\* that many when limit >= 0 and no other reaper has been started; a pass
\* that read s <= limit goes to sleep having changed nothing in the store.
C1_BatchBound ==
    [][\A r \in Reapers :
          /\ PassEnds(r) =>
                /\ Removed <= Min(reaper[r].size - reaper[r].limit, 100)
                /\ (reaper[r].limit >= 0 /\ Alone(r)) =>
                      Removed = Min(reaper[r].size - reaper[r].limit, 100)
          /\ SizeRead(r) =>
                (reaper'[r].pc = "sleep" <=> reaper'[r].size <= reaper[r].limit)
          /\ IdlePass(r) => UNCHANGED storeS]_vars

\* A pass that found the registry more than 100 over the limit has ended,
\* having removed a batch of 100.
C1_Witness ==
    \E r \in Reapers :
        /\ reaper[r].pc = "check"
        /\ reaper[r].size - reaper[r].limit > 100
        /\ Cardinality(reaper[r].tokens) = 100
        /\ reaper[r].tokens \cap DOMAIN recent = {}
        /\ ZCard(recent) > 0

\* ---------------------------------------------------------------------
WithinLimit ==
    \A r \in Reapers :
        (reaper[r].pc # "off" /\ reaper[r].limit >= 0) =>
            ZCard(recent) <= reaper[r].limit

\* C2: with limit >= 0, the flag unset and no update_token call, the running
\* reapers bring the size of recent: to at most limit, and it stays there.
C2_EventuallyWithinLimit == <>[]WithinLimit

\* A reaper with limit >= 0 that found the registry over the limit has
\* brought it within the limit.
C2_Witness ==
    \E r \in Reapers :
        /\ reaper[r].pc = "check"
        /\ reaper[r].limit >= 0
        /\ reaper[r].size > reaper[r].limit
        /\ reaper[r].tokens # {}
        /\ reaper[r].tokens \cap DOMAIN recent = {}
        /\ ZCard(recent) <= reaper[r].limit

\* ---------------------------------------------------------------------
\* update_token racing with the reapers on a small registry.
InitRace ==
    /\ InitRegistry({0, 2}, {0, 1}, {{"plain"}, {"full"}})
    /\ InitRowsOff
    /\ InitPageOff

NextRace ==
    \/ \E t \in ClientTokens, u \in Users, i \in ClientItems :
          update_token_hset(t, u, i)
    \/ update_token_zadd_recent
    \/ update_token_zadd_viewed
    \/ update_token_zremrangebyrank
    \/ update_token_zincr
    \/ ReaperStep

SpecRace == InitRace /\ [][NextRace]_vars

\* ---------------------------------------------------------------------
Evicting(r) == reaper[r].pc \in {"zrange", "del", "hdel", "zrem"}
Quiet == client.pc = "idle" /\ \A r \in Reapers : ~Evicting(r)

\* C3: whenever no update_token call and no eviction pass is in progress,
\* login: and recent: hold the same tokens.
C3_LockStep == Quiet => DOMAIN login = DOMAIN recent

\* ---------------------------------------------------------------------
\* C9: check_token(T) returns the user of the latest update_token(T, ..) whose
\* HSET no reaper has undone since, and not-found for a token never set or
\* evicted since.
C9_CheckToken ==
    client.pc = "idle" => \A t \in ClientTokens : check_token(t) = lastSet[t]

\* Token 1 was logged in for user 1, then twice more, last for user 2, and a
\* reaper has evicted the other session meanwhile.
C9_Witness ==
    /\ client.pc = "idle"
    /\ ncalls = 2
    /\ client.token = 1
    /\ check_token(1) = 2
    /\ check_token(MaxPreload + 1) = NotFound
    /\ \E r \in Reapers : reaper[r].tokens # {} /\ reaper[r].pc = "check"

\* ---------------------------------------------------------------------
\* One session's view history, starting from k views already recorded: item j
\* viewed at j - HistoryCap - 1 ms, the views numbered likewise; or ("tied")
\* items 2 and 1 viewed in this order within the same millisecond.
HistorySizes == {0, HistoryCap - 1, HistoryCap}
ViewItems == {1, HistoryCap + 1, HistoryCap + 2}
Shapes == {"distinct", "tied"}
PreloadViewAt(j, shape) ==
    IF shape = "tied" /\ j = 2 THEN 0 - HistoryCap ELSE j - HistoryCap - 1
PreloadViewNo(j, shape) ==
    IF shape = "tied" /\ j \in {1, 2} THEN (3 - j) - HistoryCap - 1
    ELSE j - HistoryCap - 1

InitViews ==
    /\ now = 0
    /\ quit = FALSE
    /\ login = PreloadLogin(1)
    /\ recent = PreloadRecent(1)
    /\ lastSet = [t \in ClientTokens |-> IF t = 1 THEN 1 ELSE NotFound]
    /\ \E k \in HistorySizes, shape \in Shapes :
          /\ viewed = IF k = 0 THEN Empty
                      ELSE [t \in {1} |-> [j \in 1..k |-> PreloadViewAt(j, shape)]]
          /\ viewLog = [t \in ClientTokens |->
                          IF t = 1
                          THEN [j \in 1..k |-> <<PreloadViewNo(j, shape),
                                                 PreloadViewAt(j, shape)>>]
                          ELSE Empty]
          /\ pop = [j \in 1..k |-> -1]
    /\ cart = Empty
    /\ client = IdleClient
    /\ ncalls = 0
    /\ reaper = [r \in Reapers |-> OffReaper]
    /\ InitRowsOff
    /\ InitPageOff

NextViews ==
    \/ \E i \in ViewItems : update_token_hset(1, 1, i)
    \/ update_token_zadd_recent
    \/ update_token_zadd_viewed
    \/ update_token_zremrangebyrank
    \/ update_token_zincr

SpecViews == InitViews /\ [][NextViews]_vars

Kept(t) == DOMAIN ViewedOf(t)
\* The items of a log with fewer than 25 items viewed after them.
Latest25(log) ==
    {i \in DOMAIN log :
        Cardinality({j \in DOMAIN log : log[j][1] > log[i][1]}) < 25}
\* The items of a log with fewer than 25 items above them by (time, name).
Top25ByTime(log) ==
    {i \in DOMAIN log :
        Cardinality({j \in DOMAIN log :
                        \/ log[j][2] > log[i][2]
                        \/ (log[j][2] = log[i][2] /\ j > i)}) < 25}
DistinctTimes(log) ==
    \A i, j \in DOMAIN log : i # j => log[i][2] # log[j][2]

\* C10 as stated: after each update_token call with an item, the session's
\* history holds at most 25 items, exactly the 25 most recently viewed.
C10_MostRecent25 ==
    client.pc = "idle" =>
        \A t \in ClientTokens :
            /\ Cardinality(Kept(t)) <= 25
            /\ Kept(t) = Latest25(viewLog[t])

\* C10 amended: after each update_token call with an item (and no eviction
\* of the session), the history holds at most 25 items, the 25 highest by
\* (view time in ms, item name); they are the 25 most recently viewed when
\* no two of the session's views fell in the same millisecond.
C10_Top25ByTime ==
    client.pc = "idle" =>
        \A t \in ClientTokens :
            /\ Cardinality(Kept(t)) <= 25
            /\ Kept(t) = Top25ByTime(viewLog[t])
            /\ DistinctTimes(viewLog[t]) => Kept(t) = Latest25(viewLog[t])

\* Two more items were viewed on top of a full history, at different times,
\* and the two oldest were trimmed.
C10_Witness ==
    /\ client.pc = "idle"
    /\ ncalls = 2
    /\ Cardinality(DOMAIN viewLog[1]) = 27
    /\ DistinctTimes(viewLog[1])
    /\ Kept(1) = (DOMAIN viewLog[1]) \ {1, 2}

\* ---------------------------------------------------------------------
\* schedule_row_cache
schedule_row_cache_zadd_delay(row, d) ==
    /\ sclient.pc = "idle"
    /\ nsched < MaxSched
    /\ delay' = ZAdd(delay, row, d)
    /\ sclient' = [pc |-> "zadd_schedule", row |-> row, delay |-> d]
    /\ nsched' = nsched + 1
    /\ asked' = [asked EXCEPT ![row] = {}]
    /\ UNCHANGED <<now, quit, sessS, pageS, midPass, schedule, inv, worker>>

schedule_row_cache_zadd_schedule ==
    /\ sclient.pc = "zadd_schedule"
    /\ ClockRead(now')
    /\ schedule' = ZAdd(schedule, sclient.row, now')
    /\ sclient' = [sclient EXCEPT !.pc = "idle"]
    /\ asked' = [asked EXCEPT ![sclient.row] = {sclient.delay}]
    /\ UNCHANGED <<quit, sessS, pageS, midPass, delay, inv, worker, nsched>>

\* -------------------------------------------------------- cache_rows
\* Inventory::get(row_id) and serde_json::to_string: the map's entries in key
\* order, the time of the fetch among them.
Inventory_get(row, t) == [id |-> row, data |-> "data to cache...", cached |-> t]
to_string(rec) ==
    <<<<"cached", rec.cached>>, <<"data", rec.data>>, <<"id", rec.id>>>>

cache_rows_check_once ==
    /\ worker.pc = "check"
    /\ worker' = [worker EXCEPT
                    !.pc = IF quit /\ DOMAIN schedule = {} THEN "done"
                           ELSE "zrange"]
    /\ UNCHANGED <<now, quit, sessS, pageS, midPass, storeR, sclient, nsched,
                   asked>>

\* while !quit.load(Ordering::Relaxed)
cache_rows_check ==
    /\ worker.pc = "check"
    /\ worker' = [worker EXCEPT !.pc = IF quit THEN "done" ELSE "zrange"]
    /\ UNCHANGED <<now, quit, sessS, pageS, midPass, storeR, sclient, nsched,
                   asked>>

\* The entry taken from the other end of schedule:.
cache_rows_zrange_last ==
    /\ worker.pc = "zrange"
    /\ ClockRead(now')
    /\ LET next == ZRange(schedule, -1, -1)
       IN  IF next = {} \/ (\E r \in next : schedule[r] > now')
           THEN worker' = [worker EXCEPT !.pc = "sleep", !.now = now']
           ELSE \E r \in next :
                   worker' = [worker EXCEPT !.pc = "zscore", !.row = r,
                                            !.now = now']
    /\ UNCHANGED <<quit, sessS, pageS, midPass, storeR, sclient, nsched, asked>>

\* zrange_withscores("schedule:", 0, 0), the clock read and the test on them.
cache_rows_zrange ==
    /\ worker.pc = "zrange"
    /\ ClockRead(now')
    /\ LET next == ZRange(schedule, 0, 0)
       IN  IF next = {} \/ (\E r \in next : schedule[r] > now')
           THEN worker' = [worker EXCEPT !.pc = "sleep", !.now = now']
           ELSE \E r \in next :
                   worker' = [worker EXCEPT !.pc = "zscore", !.row = r,
                                            !.now = now']
    /\ UNCHANGED <<quit, sessS, pageS, midPass, storeR, sclient, nsched, asked>>

\* thread::sleep(Duration::from_millis(50)); continue
cache_rows_sleep ==
    /\ worker.pc = "sleep"
    /\ worker' = [worker EXCEPT !.pc = "check"]
    /\ UNCHANGED <<now, quit, sessS, pageS, midPass, storeR, sclient, nsched,
                   asked>>

\* let delay: isize = conn.zscore("delay:", &row_id)?: a nil reply is no isize,
\* and `?` returns the error.
cache_rows_zscore ==
    /\ worker.pc = "zscore"
    /\ IF worker.row \notin DOMAIN delay
       THEN worker' = [worker EXCEPT !.pc = "err"]
       ELSE worker' = [worker EXCEPT
                         !.delay = delay[worker.row],
                         !.pc = IF delay[worker.row] <= 0 THEN "zrem_delay"
                                ELSE "zadd_schedule"]
    /\ UNCHANGED <<now, quit, sessS, pageS, midPass, storeR, sclient, nsched,
                   asked>>

cache_rows_zrem_delay ==
    /\ worker.pc = "zrem_delay"
    /\ delay' = ZRem(delay, {worker.row})
    /\ worker' = [worker EXCEPT !.pc = "zrem_schedule"]
    /\ UNCHANGED <<now, quit, sessS, pageS, midPass, schedule, inv, sclient,
                   nsched, asked>>

cache_rows_zrem_schedule ==
    /\ worker.pc = "zrem_schedule"
    /\ schedule' = ZRem(schedule, {worker.row})
    /\ worker' = [worker EXCEPT !.pc = "del_inv"]
    /\ UNCHANGED <<now, quit, sessS, pageS, midPass, delay, inv, sclient,
                   nsched, asked>>

cache_rows_del_inv_skipped ==
    /\ worker.pc = "del_inv"
    /\ worker' = [worker EXCEPT !.pc = "check"]
    /\ UNCHANGED <<now, quit, sessS, pageS, midPass, storeR, sclient, nsched,
                   asked>>

cache_rows_del_inv ==
    /\ worker.pc = "del_inv"
    /\ inv' = Del(inv, {worker.row})
    /\ worker' = [worker EXCEPT !.pc = "check"]
    /\ UNCHANGED <<now, quit, sessS, pageS, midPass, delay, schedule, sclient,
                   nsched, asked>>

\* Inventory::get(&row_id), which reads the clock, then the re-insertion.
cache_rows_zadd_schedule ==
    /\ worker.pc = "zadd_schedule"
    /\ ClockRead(now')
    /\ schedule' = ZAdd(schedule, worker.row, worker.now + worker.delay)
    /\ worker' = [worker EXCEPT !.pc = "set_inv", !.cached = now']
    /\ UNCHANGED <<quit, sessS, pageS, midPass, delay, inv, sclient, nsched,
                   asked>>

cache_rows_set_inv ==
    /\ worker.pc = "set_inv"
    /\ inv' = HSet(inv, worker.row,
                   to_string(Inventory_get(worker.row, worker.cached)))
    /\ worker' = [worker EXCEPT !.pc = "check"]
    /\ UNCHANGED <<now, quit, sessS, pageS, midPass, delay, schedule, sclient,
                   nsched, asked>>

WorkerStep ==
    \/ cache_rows_check
    \/ cache_rows_zrange
    \/ cache_rows_sleep
    \/ cache_rows_zscore
    \/ cache_rows_zrem_delay
    \/ cache_rows_zrem_schedule
    \/ cache_rows_del_inv
    \/ cache_rows_zadd_schedule
    \/ cache_rows_set_inv

\* The refresh worker, spawned on an empty schedule, and a caller of
\* schedule_row_cache.
InitWorker ==
    /\ delay = Empty
    /\ schedule = Empty
    /\ inv = Empty
    /\ sclient = IdleSClient
    /\ worker = [OffWorker EXCEPT !.pc = "check"]
    /\ nsched = 0
    /\ asked = [r \in Rows |-> {}]

InitRows ==
    now = 0 /\ quit = FALSE /\ InitSessionsOff /\ InitWorker /\ InitPageOff

NextRows ==
    \/ \E row \in Rows, d \in Delays : schedule_row_cache_zadd_delay(row, d)
    \/ schedule_row_cache_zadd_schedule
    \/ WorkerStep

SpecRows == InitRows /\ [][NextRows]_vars

\* ---------------------------------------------------------------------
StopAsked(id) == asked[id] # {} /\ \A d \in asked[id] : d <= 0
CacheAsked(id) == asked[id] # {} /\ \A d \in asked[id] : d > 0
Refreshing(id) ==
    worker.pc \in {"zadd_schedule", "set_inv"} /\ worker.row = id
Cleared(id) ==
    id \notin DOMAIN inv /\ id \notin DOMAIN schedule /\ id \notin DOMAIN delay

\* C4: once schedule_row_cache(id, d) with d <= 0 has completed (and no later
\* call for id was made), the worker does not fetch or write the row for
\* id, and it does not stop before id has lost its row-cache entry, its schedule
\* entry and its delay entry.
C4_StopCaching ==
    \A id \in Rows :
        StopAsked(id) =>
            /\ ~Refreshing(id)
            /\ worker.pc = "err" => Cleared(id)

\* C5: once schedule_row_cache(id, d) with d > 0 has completed (and no later
\* call for id was made), id keeps its schedule entry, and the worker does not
\* stop before id has a row-cache entry.
C5_KeepsSchedule ==
    \A id \in Rows :
        CacheAsked(id) =>
            /\ id \in DOMAIN schedule
            /\ worker.pc = "err" => id \in DOMAIN inv

\* C6: a refresh at time t (ms) of a row with a delay of d seconds re-inserts
\* its schedule entry with dueAt = t + d seconds, in the clock's unit.
C6_DueAtSeconds ==
    [][(worker.pc = "zadd_schedule" /\ worker'.pc = "set_inv") =>
          schedule'[worker.row] = worker.now + worker.delay * MsPerSec]_vars

BetweenIterations == worker.pc \in {"check", "sleep", "done"}

\* C7 as stated: whenever the worker is between iterations (and has not
\* failed), every row with a row-cache entry has a schedule entry and a
\* delay entry with a delay > 0.
C7_CachedImpliesPositive ==
    BetweenIterations =>
        \A id \in DOMAIN inv :
            id \in DOMAIN schedule /\ id \in DOMAIN delay /\ delay[id] > 0

StopPending(id) ==
    \/ StopAsked(id)
    \/ sclient.pc = "zadd_schedule" /\ sclient.row = id /\ sclient.delay <= 0

\* C7 amended: whenever the worker is between iterations, every row with a
\* row-cache entry has a schedule entry and a delay entry; its delay is > 0
\* unless a schedule_row_cache call with a delay <= 0 was made for it (in
\* progress or completed) that the worker has not processed yet.
C7_CachedImpliesScheduled ==
    BetweenIterations =>
        \A id \in DOMAIN inv :
            /\ id \in DOMAIN schedule
            /\ id \in DOMAIN delay
            /\ delay[id] > 0 \/ StopPending(id)

\* A cached row whose caching was stopped by a completed call, the worker not
\* having processed it yet; and the worker has removed a row before.
C7_Witness ==
    /\ worker.pc = "check"
    /\ \E id \in DOMAIN inv :
          /\ StopAsked(id)
          /\ id \in DOMAIN schedule
          /\ delay[id] <= 0

\* ---------------------------------------------------------------------
\* The three worker loops with their owner, who sets the flag at some point:
\* one of the reapers on a registry of 2 sessions, the refresh worker with a
\* caller scheduling row 1.
InitCancel ==
    /\ InitRegistry({2}, {1}, {{"plain"}, {"full"}})
    /\ InitWorker
    /\ InitPageOff

NextCancel ==
    \/ ReaperStep
    \/ WorkerStep
    \/ \E d \in {-1, 1} : schedule_row_cache_zadd_delay(1, d)
    \/ schedule_row_cache_zadd_schedule
    \/ set_quit

\* Each loop is a thread of its own, which the operating system keeps
\* scheduling; the owner and the caller are under no obligation.
SpecCancel ==
    /\ InitCancel
    /\ [][NextCancel]_vars
    /\ \A r \in Reapers : WF_vars(ReaperOf(r))
    /\ WF_vars(WorkerStep)

ReturnedOk(pc) == pc = "done"
Returned(pc) == pc \in {"off", "done", "err"}
AtHead(pc) == pc = "check"

\* C8: a loop returns Ok only with the flag set; at the head of an iteration
\* with the flag set its only step is to return Ok, so that it issues no
\* store command of a further iteration; and once the flag is set every loop
\* that was spawned returns (Ok, or the error of a failed store command).
C8_Cancel ==
    /\ [](\A r \in Reapers : ReturnedOk(reaper[r].pc) => quit)
    /\ [](ReturnedOk(worker.pc) => quit)
    /\ [][\A r \in Reapers :
             (quit /\ AtHead(reaper[r].pc) /\ reaper'[r] # reaper[r]) =>
                 (ReturnedOk(reaper'[r].pc) /\ UNCHANGED <<storeS, storeR>>)]_vars
    /\ [][(quit /\ AtHead(worker.pc) /\ worker' # worker) =>
             (ReturnedOk(worker'.pc) /\ UNCHANGED <<storeS, storeR>>)]_vars
    /\ (quit ~> (/\ \A r \in Reapers : Returned(reaper[r].pc)
                 /\ Returned(worker.pc)))

\* The flag was set while a reaper was evicting and the refresh worker was
\* refreshing a row; all three loops have finished that iteration and
\* returned Ok.
C8_Witness ==
    /\ quit
    /\ ReturnedOk(worker.pc)
    /\ \E r \in Reapers :
          /\ ReturnedOk(reaper[r].pc)
          /\ reaper[r].tokens # {}
          /\ reaper[r].tokens \cap DOMAIN recent = {}
    /\ DOMAIN inv # {}
    /\ DOMAIN schedule # {}

\* ---------------------------------------------------------------------
\* add_to_cart: one HDEL or one HSET on cart:<session>.
CartOf(c, t) == IF t \in DOMAIN c THEN c[t] ELSE Empty
ViewsIn(v, t) == IF t \in DOMAIN v THEN v[t] ELSE Empty

\* Writing a hash back under its key: an empty hash is no key.
PutCart(t, h) ==
    IF DOMAIN h = {} THEN Del(cart, {t})
    ELSE [x \in (DOMAIN cart) \cup {t} |-> IF x = t THEN h ELSE cart[x]]

add_to_cart_keep(session, item, count) ==
    /\ shopper.n < MaxCalls
    /\ cart' = PutCart(session, HSet(CartOf(cart, session), item, count))
    /\ shopper' = [n |-> shopper.n + 1, session |-> session, item |-> item,
                   count |-> count]
    /\ UNCHANGED <<now, quit, login, recent, viewed, pop, client, reaper,
                   ncalls, lastSet, viewLog, rowsS, cache, pager, faults,
                   midPass>>

add_to_cart(session, item, count) ==
    /\ shopper.n < MaxCalls
    /\ cart' = PutCart(session,
                       IF count <= 0 THEN HDel(CartOf(cart, session), {item})
                       ELSE HSet(CartOf(cart, session), item, count))
    /\ shopper' = [n |-> shopper.n + 1, session |-> session, item |-> item,
                   count |-> count]
    /\ UNCHANGED <<now, quit, login, recent, viewed, pop, client, reaper,
                   ncalls, lastSet, viewLog, rowsS, cache, pager, faults,
                   midPass>>

\* ---------------------------------------------------------------------
\* The reapers on a registry of three sessions with view histories and
\* carts, and a caller of add_to_cart.  Session 3 was seen first, sessions 1
\* and 2 later within one millisecond; each viewed item 1 when it was seen;
\* sessions 1 and 3 have a cart.
CartSize == 3
CartSeenAt(t) == IF t = CartSize THEN 0 - CartSize ELSE -1
CartSessions == {1, 2}
CartItems == {1, 2}
Counts == {-1, 0, 1, 3}

InitCart ==
    /\ now = 0
    /\ quit = FALSE
    /\ login = PreloadLogin(CartSize)
    /\ recent = [t \in 1..CartSize |-> CartSeenAt(t)]
    /\ viewed = [t \in 1..CartSize |-> [i \in {1} |-> CartSeenAt(t)]]
    /\ pop = [i \in {1} |-> 0 - CartSize]
    /\ cart = [t \in {1, CartSize} |-> [i \in {1} |-> 2]]
    /\ client = IdleClient
    /\ ncalls = 0
    /\ lastSet = [t \in ClientTokens |-> IF t <= CartSize THEN 1 ELSE NotFound]
    /\ viewLog = [t \in ClientTokens |-> Empty]
    /\ \E l \in {0, 1}, run \in RunSets :
          reaper = [r \in Reapers |->
                      IF r \in run THEN [OffReaper EXCEPT !.pc = "check", !.limit = l]
                      ELSE OffReaper]
    /\ InitRowsOff
    /\ InitPageOff

NextCart ==
    \/ \E t \in CartSessions, i \in CartItems, q \in Counts : add_to_cart(t, i, q)
    \/ ReaperStep

SpecCart == InitCart /\ [][NextCart]_vars

\* ---------------------------------------------------------------------
Acts(r) == reaper'[r] # reaper[r]
Batch(r) == reaper[r].tokens
DelStep(r) == reaper[r].pc = "del" /\ reaper'[r].pc = "hdel"
HDelStep(r) == reaper[r].pc = "hdel" /\ reaper'[r].pc = "zrem"
GoneFrom(keys, ts) == ts \cap DOMAIN keys = {}
\* A hash, sorted set or key family without the entries of ts.
Outside(keys, ts) == [x \in (DOMAIN keys) \ ts |-> keys[x]]
SameOutside(ts) ==
    /\ Outside(viewed', ts) = Outside(viewed, ts)
    /\ Outside(cart', ts) = Outside(cart, ts)
    /\ Outside(login', ts) = Outside(login, ts)
    /\ Outside(recent', ts) = Outside(recent, ts)
SameCarts(ts) == \A t \in ts : CartOf(cart', t) = CartOf(cart, t)

\* C11: the reaper's DEL removes the view history of every token of the
\* batch, and in clean_full_sessions also its cart, while clean_sessions
\* leaves every cart as it is; its HDEL removes the batch from login: and its
\* ZREM from recent:; each command leaves the view history, cart, login:
\* entry and recent: entry of every token outside the batch unchanged, and
\* no other step of a reaper changes the store.  With no update_token call,
\* the batch is gone from all three when the pass ends.
C11_EvictionFrame ==
    [][\A r \in Reapers :
          Acts(r) =>
             /\ SameOutside(Batch(r))
             /\ DelStep(r) =>
                   /\ GoneFrom(viewed', Batch(r))
                   /\ r = "plain" => SameCarts(Batch(r))
                   /\ r = "full" => GoneFrom(cart', Batch(r))
                   /\ UNCHANGED <<login, recent, pop>>
             /\ HDelStep(r) =>
                   /\ GoneFrom(login', Batch(r))
                   /\ UNCHANGED <<recent, viewed, cart, pop>>
             /\ PassEnds(r) =>
                   /\ GoneFrom(recent', Batch(r))
                   /\ GoneFrom(login', Batch(r))
                   /\ GoneFrom(viewed', Batch(r))
                   /\ UNCHANGED <<login, viewed, cart, pop>>
             /\ ~(DelStep(r) \/ HDelStep(r) \/ PassEnds(r)) =>
                   UNCHANGED storeS]_vars

\* clean_sessions with limit 1 has evicted sessions 3 and 1 and kept their
\* carts; session 2 keeps its view history, login: entry and recent: entry.
C11_Witness ==
    /\ reaper["plain"].pc = "check"
    /\ Alone("plain")
    /\ reaper["plain"].tokens = {1, CartSize}
    /\ GoneFrom(recent, {1, CartSize})
    /\ GoneFrom(login, {1, CartSize})
    /\ GoneFrom(viewed, {1, CartSize})
    /\ CartOf(cart, 1) # Empty /\ CartOf(cart, CartSize) # Empty
    /\ 2 \in DOMAIN recent /\ 2 \in DOMAIN login /\ 2 \in DOMAIN viewed

\* ---------------------------------------------------------------------
\* C15: add_to_cart(session, item, q) leaves the session's cart mapping item
\* to q when q > 0 and without a line for item when q <= 0; every other
\* line of that cart and every other session's cart is unchanged.
C15_AddToCart ==
    [][shopper' # shopper =>
          LET t == shopper'.session
              i == shopper'.item
              q == shopper'.count
          IN  /\ q > 0 => (i \in DOMAIN CartOf(cart', t) /\ CartOf(cart', t)[i] = q)
              /\ q <= 0 => i \notin DOMAIN CartOf(cart', t)
              /\ Outside(CartOf(cart', t), {i}) = Outside(CartOf(cart, t), {i})
              /\ Outside(cart', {t}) = Outside(cart, {t})]_vars

\* Session 1's cart held 2 of item 1; 3 of item 2 were added, then item 1
\* was removed with quantity 0; session 3's cart is as it was.
C15_Witness ==
    /\ shopper = [n |-> 2, session |-> 1, item |-> 1, count |-> 0]
    /\ CartOf(cart, 1) = [i \in {2} |-> 3]
    /\ CartOf(cart, CartSize) = [i \in {1} |-> 2]

\* ---------------------------------------------------------------------
\* C19: with no update_token call, every token a pass removes from recent:
\* was last seen no later than every token that remains after the pass.
C19_OldestFirst ==
    [][\A r \in Reapers :
          PassEnds(r) =>
             \A t \in Batch(r) \cap DOMAIN recent, u \in DOMAIN recent' :
                 recent[t] <= recent[u]]_vars

\* A pass with limit 1 has removed session 3 and, of the two sessions last
\* seen in the same millisecond, session 1.
C19_Witness ==
    \E r \in Reapers :
        /\ reaper[r].pc = "check"
        /\ Alone(r)
        /\ reaper[r].tokens = {1, CartSize}
        /\ DOMAIN recent = {2}

\* ---------------------------------------------------------------------
\* Requests.  A request is the query of its URL: the sequence of its
\* <<name, value>> parameters, empty for a URL without a query.
Url(item) == <<<<"item", item>>>>
PageItems == {1, RankCap, RankCap + 1}
Requests ==
    {<<>>, <<<<"q", 1>>>>, <<<<"q", 1>>, <<"item", 1>>>>,
     <<<<"item", 1>>, <<"_", 1>>>>, <<<<"item", 1>>, <<"item", RankCap + 1>>>>}
        \cup {Url(i) : i \in PageItems}

\* query.get("item") and value[0]: the value of the first parameter so named.
extract_item_id(request) ==
    LET at == {k \in DOMAIN request : request[k][1] = "item"}
    IN  IF at = {} THEN NoItem
        ELSE request[CHOOSE k \in at : \A j \in at : k <= j][2]

\* query.contains_key("_")
is_dynamic(request) == \E k \in DOMAIN request : request[k][1] = "_"

\* DefaultHasher is not computed here: a polynomial hash stands for it, which
\* like it gives equal requests equal keys, and the requests of the model
\* different keys.
HashBase == 31
HashMod == 32749
NameCode(name) == CASE name = "item" -> 1 [] name = "_" -> 2 [] OTHER -> 3
RECURSIVE HashFrom(_, _)
HashFrom(h, params) ==
    IF params = <<>> THEN h
    ELSE HashFrom((((h * HashBase + NameCode(Head(params)[1])) % HashMod)
                      * HashBase + Head(params)[2]) % HashMod,
                  Tail(params))
hash_request(request) == HashFrom(Len(request) + 1, request)

\* The two renderers of the tests: "content for " + request, and String::new().
Callbacks == {1, 2}
callback(cb, request) == IF cb = 1 THEN <<"content for ", request>> ELSE <<>>

can_cache_upto(request) ==
    LET item_id == extract_item_id(request)
    IN  IF item_id = NoItem \/ is_dynamic(request) THEN FALSE
        ELSE item_id \in DOMAIN pop /\ ZRank(pop, item_id) <= RankCap

\* One ZRANK of viewed:, when the request has an item and is not dynamic.
can_cache(request) ==
    LET item_id == extract_item_id(request)
    IN  IF item_id = NoItem \/ is_dynamic(request) THEN FALSE
        ELSE item_id \in DOMAIN pop /\ ZRank(pop, item_id) < RankCap

\* What is kept of a cache_request call when the next call starts.
Earlier == [request |-> pager.request, callback |-> pager.callback,
            admit |-> pager.admit, content |-> pager.content,
            setAt |-> pager.setAt]

\* A call of can_cache on its own, as the tests make it.
can_cache_call(request) ==
    /\ pager.pc = "idle"
    /\ pager.n < MaxCalls
    /\ pager' = [pager EXCEPT !.n = @ + 1, !.request = request,
                              !.admit = can_cache(request), !.probe = TRUE,
                              !.prev = IF pager.probe THEN @ ELSE Earlier]
    /\ UNCHANGED <<now, quit, sessS, rowsS, cache, shopper, faults, midPass>>

\* The page cache is read and written at the time of the store's clock,
\* which may have moved on by 1 ms or by just under the time to live.
PageClockRead(t) ==
    /\ t \in {now, now + 1, now + Ttl * MsPerSec - 1}
    /\ t <= Ttl * MsPerSec + MaxClock

\* GET: a key whose time to live has run out is not there.
Get(key, t) ==
    IF key \in DOMAIN cache /\ cache[key].expires > t
    THEN {cache[key].content} ELSE {}

cache_request_call_admit_all(request, cb) ==
    /\ pager.pc = "idle"
    /\ pager.n < MaxCalls
    /\ pager' = [pager EXCEPT !.n = @ + 1, !.request = request,
                              !.callback = cb, !.admit = can_cache(request),
                              !.probe = FALSE, !.pc = "get",
                              !.prev = IF pager.probe THEN @ ELSE Earlier]
    /\ UNCHANGED <<now, quit, sessS, rowsS, cache, shopper, faults, midPass>>

\* The call and can_cache; when it is false, the return of callback(request).
cache_request_call(request, cb) ==
    /\ pager.pc = "idle"
    /\ pager.n < MaxCalls
    /\ LET admit == can_cache(request)
       IN  pager' = [pager EXCEPT
                       !.n = @ + 1, !.request = request, !.callback = cb,
                       !.admit = admit, !.probe = FALSE,
                       !.prev = IF pager.probe THEN @ ELSE Earlier,
                       !.pc = IF admit THEN "get" ELSE "idle",
                       !.content = IF admit THEN @ ELSE callback(cb, request),
                       !.rendered = IF admit THEN @ ELSE TRUE]
    /\ UNCHANGED <<now, quit, sessS, rowsS, cache, shopper, faults, midPass>>

cache_request_get_render ==
    /\ pager.pc = "get"
    /\ PageClockRead(now')
    /\ pager' = [pager EXCEPT
                   !.content = callback(pager.callback, pager.request),
                   !.rendered = TRUE, !.gotAt = now', !.pc = "set_ex"]
    /\ UNCHANGED <<quit, sessS, rowsS, cache, shopper, faults, midPass>>

\* conn.get(&page_key).unwrap_or_else(|_| callback(request)): a nil reply is
\* no String, and the error is replaced by the rendered content.
cache_request_get ==
    /\ pager.pc = "get"
    /\ PageClockRead(now')
    /\ LET found == Get(hash_request(pager.request), now')
       IN  pager' = [pager EXCEPT
                       !.content = IF found = {}
                                   THEN callback(pager.callback, pager.request)
                                   ELSE CHOOSE c \in found : TRUE,
                       !.rendered = (found = {}),
                       !.gotAt = now', !.pc = "set_ex"]
    /\ UNCHANGED <<quit, sessS, rowsS, cache, shopper, faults, midPass>>

\* The page stored only when the renderer produced it.
cache_request_set_ex_rendered ==
    /\ pager.pc = "set_ex"
    /\ PageClockRead(now')
    /\ cache' = IF pager.rendered
                THEN HSet(cache, hash_request(pager.request),
                          [content |-> pager.content,
                           expires |-> now' + Ttl * MsPerSec])
                ELSE cache
    /\ pager' = [pager EXCEPT !.setAt = now', !.pc = "idle"]
    /\ UNCHANGED <<quit, sessS, rowsS, shopper, faults, midPass>>

\* conn.set_ex(&page_key, &content, 300) and the return of content.
cache_request_set_ex ==
    /\ pager.pc = "set_ex"
    /\ PageClockRead(now')
    /\ cache' = HSet(cache, hash_request(pager.request),
                     [content |-> pager.content,
                      expires |-> now' + Ttl * MsPerSec])
    /\ pager' = [pager EXCEPT !.setAt = now', !.pc = "idle"]
    /\ UNCHANGED <<quit, sessS, rowsS, shopper, faults, midPass>>

\* ---------------------------------------------------------------------
\* viewed: with the first n items of a ranking of RankCap + 1 items, as views
\* of them leave it: item i at rank i - 1.
Ranking == [i \in 1..(RankCap + 1) |-> i - RankCap - 2]
PagePop(n) == SubSeq(Ranking, 1, n)
PopSizes == {0, 2, RankCap + 1}

\* The page of item RankCap + 1, stored 1 ms ago when the item ranked
\* higher than it does now.  With the whole ranking in viewed: the caller
\* has one call left.
Stored ==
    [k \in {hash_request(Url(RankCap + 1))} |->
        [content |-> callback(1, Url(RankCap + 1)),
         expires |-> Ttl * MsPerSec - 1]]

InitPage(sizes) ==
    /\ now = 0
    /\ quit = FALSE
    /\ login = Empty
    /\ recent = Empty
    /\ viewed = Empty
    /\ \E n \in sizes :
          /\ pop = PagePop(n)
          /\ cache \in (IF n > RankCap THEN {Empty, Stored} ELSE {Empty})
          /\ pager = (IF n > RankCap THEN [IdlePager EXCEPT !.n = MaxCalls - 1]
                      ELSE IdlePager)
    /\ cart = Empty
    /\ client = IdleClient
    /\ reaper = [r \in Reapers |-> OffReaper]
    /\ ncalls = 0
    /\ lastSet = [t \in ClientTokens |-> NotFound]
    /\ viewLog = [t \in ClientTokens |-> Empty]
    /\ InitRowsOff
    /\ shopper = NoShopper
    /\ faults = {}
    /\ midPass = {}

PagerStep ==
    \/ \E request \in Requests : can_cache_call(request)
    \/ \E request \in Requests, cb \in Callbacks : cache_request_call(request, cb)
    \/ cache_request_get
    \/ cache_request_set_ex

\* The caller of cache_request and can_cache alone: no other store operation
\* between its calls.
SpecPager == InitPage(PopSizes) /\ [][PagerStep]_vars

\* The caller with update_token recording views of an item not yet ranked.
NextPage ==
    \/ PagerStep
    \/ update_token_hset(1, 1, RankCap + 1)
    \/ update_token_zadd_recent
    \/ update_token_zadd_viewed
    \/ update_token_zremrangebyrank
    \/ update_token_zincr

SpecPage == InitPage({0, 2}) /\ [][NextPage]_vars

\* ---------------------------------------------------------------------
Called == pager'.n # pager.n
HasItem(request) == \E k \in DOMAIN request : request[k][1] = "item"
HasUnderscore(request) == \E k \in DOMAIN request : request[k][1] = "_"
\* The item identifier of a request that has one: its first item parameter.
ItemOf(request) ==
    LET k == CHOOSE k \in DOMAIN request :
                 /\ request[k][1] = "item"
                 /\ \A j \in 1..(k - 1) : request[j][1] # "item"
    IN  request[k][2]
Ranked(item) == item \in DOMAIN pop
Admissible(request) ==
    /\ HasItem(request)
    /\ ~HasUnderscore(request)
    /\ Ranked(ItemOf(request))
    /\ ZRank(pop, ItemOf(request)) < 10000

\* C12: can_cache(request), called on its own or by cache_request, is false
\* for a request without an item identifier, for one with a parameter named
\* `_`, and for an item without a rank in viewed: or with a rank >= 10000; it
\* is true in every other case; and the call changes nothing in the store.
C12_CanCache ==
    [][Called =>
          /\ pager'.admit <=> Admissible(pager'.request)
          /\ pager'.probe => UNCHANGED <<storeS, storeR, cache>>]_vars

\* With RankCap + 1 items ranked, can_cache has refused the item at rank
\* 10000, and changed nothing in the page cache.
C12_Witness ==
    /\ pager.pc = "idle"
    /\ pager.probe
    /\ pager.request = Url(RankCap + 1)
    /\ ~pager.admit
    /\ Ranked(RankCap + 1)
    /\ ZRank(pop, RankCap + 1) = 10000
    /\ cache = Stored

\* ---------------------------------------------------------------------
\* The latest cache_request call has returned, and the cache_request call
\* before it was for the same request, with another renderer.
Repeated ==
    /\ pager.pc = "idle"
    /\ ~pager.probe
    /\ pager.prev.request = pager.request
    /\ pager.prev.callback # pager.callback
    /\ pager.admit /\ pager.prev.admit

\* C13: of two consecutive cache_request calls for the same cacheable
\* request with different renderers, no other store operation between them,
\* the second, reading the page less than 300 seconds after the first stored
\* it, returns the content the first returned without calling its renderer.
C13_SecondFromCache ==
    (Repeated /\ pager.gotAt - pager.prev.setAt < 300 * MsPerSec) =>
        (pager.content = pager.prev.content /\ ~pager.rendered)

\* The second call read the page 1 ms before its 300 seconds were over, and
\* returned the first call's content, which its own renderer does not
\* produce.
C13_Witness ==
    /\ Repeated
    /\ pager.gotAt - pager.prev.setAt = 300 * MsPerSec - 1
    /\ pager.content = pager.prev.content
    /\ pager.content # callback(pager.callback, pager.request)
    /\ ~pager.rendered

\* ---------------------------------------------------------------------
PageKey == hash_request(pager.request)

\* C14: only the SET of a cache_request call whose can_cache was true writes
\* the page cache, and only the page of its request; a call whose can_cache
\* is false returns callback(request) at once and changes no key of the
\* store, the page stored earlier for the same request included.
C14_WriteOnlyAdmitted ==
    [][/\ cache' # cache =>
             /\ pager.pc = "set_ex"
             /\ pager.admit /\ ~pager.probe
             /\ Outside(cache', {PageKey}) = Outside(cache, {PageKey})
             /\ cache'[PageKey].content = pager.content
       /\ (Called /\ ~pager'.probe /\ ~pager'.admit) =>
             /\ pager'.pc = "idle"
             /\ pager'.content = callback(pager'.callback, pager'.request)
             /\ UNCHANGED <<storeS, storeR, cache>>]_vars

\* The page of the item now at rank 10000 was asked for with the renderer of
\* the empty page: the call returned the empty page, and the page stored
\* earlier is still there.
C14_Witness ==
    /\ pager.pc = "idle"
    /\ ~pager.probe
    /\ pager.request = Url(RankCap + 1)
    /\ ~pager.admit
    /\ pager.callback = 2
    /\ pager.content = <<>>
    /\ cache = Stored

\* ---------------------------------------------------------------------
\* A store command that fails: every command of the loops is followed by
\* `?`, which returns the error from the loop's function.
ReaperCommands == {"zcard", "zrange", "del", "hdel", "zrem"}
WorkerCommands ==
    {"zrange", "zscore", "zrem_delay", "zrem_schedule", "del_inv",
     "zadd_schedule", "set_inv"}

reaper_fail_retry(r) ==
    /\ reaper[r].pc \in ReaperCommands
    /\ reaper' = [reaper EXCEPT ![r].pc = "check"]
    /\ faults' = faults \cup {r}
    /\ UNCHANGED <<now, quit, storeS, client, ncalls, lastSet, viewLog, rowsS,
                   cache, pager, shopper, midPass>>

reaper_fail(r) ==
    /\ reaper[r].pc \in ReaperCommands
    /\ reaper' = [reaper EXCEPT ![r].pc = "err"]
    /\ faults' = faults \cup {r}
    /\ UNCHANGED <<now, quit, storeS, client, ncalls, lastSet, viewLog, rowsS,
                   cache, pager, shopper, midPass>>

cache_rows_fail ==
    /\ worker.pc \in WorkerCommands
    /\ worker' = [worker EXCEPT !.pc = "err"]
    /\ faults' = faults \cup {"rows"}
    /\ UNCHANGED <<now, quit, sessS, storeR, sclient, nsched, asked, cache,
                   pager, shopper, midPass>>

\* One reaper on a registry of 2 sessions and the refresh worker with a
\* caller scheduling row 1, on a store whose commands may fail.
InitFail ==
    /\ InitRegistry({2}, {0, 1}, {{"plain"}, {"full"}})
    /\ InitWorker
    /\ InitPageOff

NextFail ==
    \/ ReaperStep
    \/ WorkerStep
    \/ \E d \in {-1, 1} : schedule_row_cache_zadd_delay(1, d)
    \/ schedule_row_cache_zadd_schedule
    \/ \E r \in Reapers : reaper_fail(r)
    \/ cache_rows_fail

SpecFail == InitFail /\ [][NextFail]_vars

\* ---------------------------------------------------------------------
Failed(pc) == pc = "err"
Fails(pc, pcNext) == ~Failed(pc) /\ Failed(pcNext)

\* C16: a worker loop one of whose store commands failed has returned the
\* error; the failing step changes nothing in the store; a loop that returned
\* an error takes no further step, so that every later change of the store
\* is made by a caller or by a loop that has not failed.
C16_FailStops ==
    /\ [](\A r \in Reapers : r \in faults => Failed(reaper[r].pc))
    /\ []("rows" \in faults => Failed(worker.pc))
    /\ [][/\ \A r \in Reapers :
                /\ Fails(reaper[r].pc, reaper'[r].pc) =>
                      UNCHANGED <<storeS, storeR>>
                /\ Failed(reaper[r].pc) => reaper'[r] = reaper[r]
          /\ Fails(worker.pc, worker'.pc) => UNCHANGED <<storeS, storeR>>
          /\ Failed(worker.pc) => worker' = worker
          /\ <<storeS, storeR>>' # <<storeS, storeR>> =>
                \/ client' # client
                \/ sclient' # sclient
                \/ \E r \in Reapers : Acts(r) /\ ~Failed(reaper[r].pc)
                \/ worker' # worker /\ ~Failed(worker.pc)]_vars

\* A reaper's ZREM failed after its HDEL: its batch is gone from login: and
\* still in recent:.  The worker's SET failed after its ZADD: the row is
\* scheduled again and has no row-cache entry.
C16_Witness ==
    /\ \E r \in faults \cap Reapers :
          /\ Failed(reaper[r].pc)
          /\ reaper[r].tokens # {}
          /\ GoneFrom(login, reaper[r].tokens)
          /\ reaper[r].tokens \subseteq DOMAIN recent
    /\ "rows" \in faults
    /\ Failed(worker.pc)
    /\ worker.row \in DOMAIN schedule
    /\ schedule[worker.row] = worker.now + worker.delay
    /\ worker.row \notin DOMAIN inv

\* ---------------------------------------------------------------------
\* C17: whenever no schedule_row_cache call is in progress (and the worker is
\* between iterations), every row in schedule: has an entry in delay:; and
\* the worker's ZSCORE of a due row never finds the delay missing, which
\* would end the loop with an error.
C17_ScheduledHasDelay ==
    /\ (sclient.pc = "idle" /\ BetweenIterations) =>
           DOMAIN schedule \subseteq DOMAIN delay
    /\ ~Failed(worker.pc)

\* ---------------------------------------------------------------------
\* C18: when a reaper ends a pass, the token of an update_token call that
\* started after the reaper read the batch of this pass, and has returned,
\* is in login: and in recent:, and the item the call recorded is in the
\* token's view history.
C18_FreshSessionKept ==
    [][\A r \in Reapers :
          (PassEnds(r) /\ r \in midPass /\ client.pc = "idle") =>
             /\ client.token \in DOMAIN login'
             /\ client.token \in DOMAIN recent'
             /\ client.item # NoItem =>
                   client.item \in DOMAIN ViewsIn(viewed', client.token)]_vars

\* ---------------------------------------------------------------------
Peeks == worker.pc = "zrange" /\ worker' # worker
Picked == worker'.pc = "zscore"
Idles == worker.pc \in {"check", "zrange", "sleep"} /\ worker' # worker

\* C20: the row an iteration picks is in schedule: with the smallest dueAt,
\* which is <= the time the iteration read; with schedule: empty or its
\* smallest dueAt in the future the iteration picks no row and goes to
\* sleep; the worker changes nothing in the store while it has not picked a
\* row, and then only the delay, schedule and row-cache entries of that row.
C20_EarliestDue ==
    [][/\ (Peeks /\ Picked) =>
             /\ worker'.row \in DOMAIN schedule
             /\ schedule[worker'.row] <= worker'.now
             /\ \A o \in DOMAIN schedule : schedule[worker'.row] <= schedule[o]
       /\ (Peeks /\ ~Picked) =>
             /\ worker'.pc = "sleep"
             /\ \A o \in DOMAIN schedule : schedule[o] > worker'.now
       /\ Idles => UNCHANGED <<storeS, storeR>>
       /\ worker' # worker =>
             /\ Outside(delay', {worker.row}) = Outside(delay, {worker.row})
             /\ Outside(schedule', {worker.row}) = Outside(schedule, {worker.row})
             /\ Outside(inv', {worker.row}) = Outside(inv, {worker.row})
             /\ UNCHANGED storeS]_vars

\* The worker has refreshed a row before and has now picked a due row while
\* another row is due only later, after the time it read.
C20_Witness ==
    /\ worker.pc = "zscore"
    /\ DOMAIN inv # {}
    /\ worker.row \in DOMAIN schedule
    /\ schedule[worker.row] <= worker.now
    /\ \E o \in DOMAIN schedule : schedule[o] > worker.now

\* ---------------------------------------------------------------------
BothRunning == \A r \in Reapers : reaper[r].pc \notin {"off", "err"}
SameLimit(l) == \A r \in Reapers : reaper[r].limit = l

\* C21: with both reapers running with the same limit l >= 0, a step that
\* removes a token from recent: starts in a state where recent: holds more
\* than l tokens, and recent: never gets below l tokens by a removal.
C21_NeverBelowLimit ==
    [][\A l \in Limits :
          (l >= 0 /\ BothRunning /\ SameLimit(l) /\ Removed > 0) =>
              /\ ZCard(recent) > l
              /\ ZCard(recent') >= l]_vars

\* ---------------------------------------------------------------------
Returns == pager.pc # "idle" /\ pager'.pc = "idle"
Admitted == Called /\ ~pager'.probe /\ pager'.admit

\* C22: a cache_request call whose can_cache was true goes on to its GET and
\* returns only from its SETEX, made at time t, after which the page cache
\* holds under the key of its request the content the call returns, with the
\* expiry t + 300 seconds, with the content read from the cache as with the
\* content rendered.
C22_TtlRefreshed ==
    [][/\ Admitted => pager'.pc = "get"
       /\ (Returns /\ pager.admit) =>
             /\ pager.pc = "set_ex"
             /\ pager'.content = pager.content
             /\ PageKey \in DOMAIN cache'
             /\ cache'[PageKey].content = pager'.content
             /\ cache'[PageKey].expires = now' + Ttl * MsPerSec]_vars

\* The second call for a request returned the page the first call stored,
\* without rendering it, and the page's expiry is now 300 seconds after the
\* second call's SETEX, later than the expiry the first call gave it.
C22_Witness ==
    /\ pager.pc = "idle"
    /\ pager.admit /\ ~pager.probe
    /\ ~pager.rendered
    /\ pager.prev.admit
    /\ pager.prev.request = pager.request
    /\ pager.content = pager.prev.content
    /\ PageKey \in DOMAIN cache
    /\ cache[PageKey].content = pager.content
    /\ cache[PageKey].expires = pager.setAt + Ttl * MsPerSec
    /\ pager.setAt > pager.prev.setAt

====
